---- MODULE Spec2Model ----
(***************************************************************************)
(* demo.py of LongLoRA: main() loads a configuration, sets the RoPE        *)
(* scaling factor, loads model and tokenizer, builds the closure           *)
(* response(material, question) and hands it to the web form.              *)
(*                                                                         *)
(* Text is a sequence of atoms.  An atom is one character, or one literal  *)
(* piece of the program's own text (a piece of the prompt template, of a   *)
(* message) that no input of the model contains in part, so that matching  *)
(* atoms is matching characters.                                           *)
(***************************************************************************)
EXTENDS Integers, Sequences, FiniteSets, TLC

VARIABLES
    args,               \* parse_config(): the command line
    orig_ctx_len,       \* config.max_position_embeddings, None when absent
    rope_scaling,       \* config.rope_scaling
    model_max_length,   \* the tokenizer's model_max_length
    prompt_dict,        \* PROMPT_DICT["prompt_no_input"], a module global
    captured,           \* what build_generator closes over
    pc,                 \* where main() is
    call,               \* the call of response in progress
    prev                \* a call of response that finished earlier

vars == <<args, orig_ctx_len, rope_scaling, model_max_length, prompt_dict,
          captured, pc, call, prev>>

\* Python's None: an absent number is the empty tuple and a present one the
\* tuple of it; an absent text is the text NoText; an absent record has no
\* fields but `absent`
None == <<>>
Some(x) == <<x>>
Val(o) == o[1]
NoText == <<"None">>
Absent == [absent |-> TRUE]
\* config.rope_scaling as from_pretrained loaded it
AsLoaded == [type |-> "as_loaded"]

(***************************************************************************)
(* Bounds and program constants                                            *)
(***************************************************************************)
MaxCtx == 6

TokenLimit == 32768
DefaultContextSize == -1
DefaultTemperature == 6
DefaultTopP == 9
DefaultMaxGenLen == 512

(***************************************************************************)
(* Text helpers: str.split, str.strip, "%d"                                *)
(***************************************************************************)
Whitespace == {" ", "\n", "\t", "\r"}

Digit == <<"0", "1", "2", "3", "4", "5", "6", "7", "8", "9">>

Drop(s, k) == SubSeq(s, k + 1, Len(s))

Occurs(s, sep, i) == i + Len(sep) - 1 <= Len(s) /\ SubSeq(s, i, i + Len(sep) - 1) = sep

\* the first place sep occurs in s, 0 when it does not
Find(s, sep) ==
    LET hits == {i \in 1..Len(s) : Occurs(s, sep, i)}
    IN  IF hits = {} THEN 0 ELSE CHOOSE i \in hits : \A j \in hits : i <= j

\* s.split(sep) for a non-empty sep: the pieces between its occurrences,
\* found left to right without overlap
RECURSIVE Split(_, _)
Split(s, sep) ==
    LET i == Find(s, sep)
    IN  IF i = 0 THEN <<s>>
        ELSE <<SubSeq(s, 1, i - 1)>> \o Split(Drop(s, i + Len(sep) - 1), sep)

RECURSIVE LStrip(_)
LStrip(s) == IF s # <<>> /\ Head(s) \in Whitespace THEN LStrip(Tail(s)) ELSE s

RECURSIVE RStrip(_)
RStrip(s) ==
    IF s # <<>> /\ s[Len(s)] \in Whitespace THEN RStrip(SubSeq(s, 1, Len(s) - 1)) ELSE s

Strip(s) == RStrip(LStrip(s))

\* "%d" % n for n >= 0
RECURSIVE FormatD(_)
FormatD(n) ==
    IF n < 10 THEN <<Digit[n + 1]>> ELSE FormatD(n \div 10) \o <<Digit[(n % 10) + 1]>>

(***************************************************************************)
(* The handler's texts                                                     *)
(***************************************************************************)
OnlyTxtMessage == <<"Only support txt file.">>

LimitMessageWrongCount(n) ==
    <<"This demo supports tokens less than ">> \o <<"3", "2", "7", "6", "8">>
        \o <<", while the current is ">> \o FormatD(TokenLimit)
        \o <<". Please use material with less tokens.">>

LimitMessage(n) ==
    <<"This demo supports tokens less than ">> \o <<"3", "2", "7", "6", "8">>
        \o <<", while the current is ">> \o FormatD(n)
        \o <<". Please use material with less tokens.">>

PromptNoInput ==
    [before |-> <<"Below is an instruction that describes a task. ",
                  "Write a response that appropriately completes the request.\n\n",
                  "### Instruction:\n">>,
     after  |-> <<"\n\n### Response:">>]

\* prompt_no_input.format_map({"instruction": material + "\n%s" % question})
FormatPrompt(template, material, question) ==
    template.before \o (material \o <<"\n">> \o question) \o template.after

\* not material.name.split(".")[-1] == 'txt'
IsTxtName(name) ==
    LET parts == Split(name, <<".">>) IN parts[Len(parts)] = <<"t", "x", "t">>

ExceedsLimitOffByOne(n) == n > TokenLimit + 1

ExceedsLimit(n) == n > TokenLimit

(***************************************************************************)
(* main(): the RoPE scaling factor and the tokenizer's length              *)
(***************************************************************************)
\* math.ceil(a / b) for a > b >= 1 (the true division is exact enough for
\* the ceiling below 2^53)
FloorDiv(a, b) == a \div b

CeilDiv(a, b) == (a + b - 1) \div b

\* `if orig_ctx_len and args.context_size > orig_ctx_len`
NeedsScaling(cs, L) == L # None /\ Val(L) # 0 /\ cs > Val(L)

RopeScalingFloor(cs, L, loaded) ==
    IF NeedsScaling(cs, L) THEN [type |-> "linear", factor |-> FloorDiv(cs, Val(L))] ELSE loaded

RopeScaling(cs, L, loaded) ==
    IF NeedsScaling(cs, L) THEN [type |-> "linear", factor |-> CeilDiv(cs, Val(L))] ELSE loaded

\* model_max_length=args.context_size if args.context_size > orig_ctx_len else orig_ctx_len
ModelMaxLength(cs, L) == IF cs > Val(L) THEN Some(cs) ELSE L

BuildGenerator(a) ==
    [temperature |-> a.temperature, top_p |-> a.top_p,
     max_gen_len |-> a.max_gen_len, use_cache |-> TRUE]

(***************************************************************************)
(* Inputs                                                                  *)
(***************************************************************************)
\* context sizes and original context lengths of real checkpoints
ContextSizes == {DefaultContextSize, 8192, 32768, 100000}
OrigCtxLens == {None, Some(4096), Some(65536)}

\* every small pair as well, for the ceiling
WideContextSizes == (DefaultContextSize..MaxCtx) \cup ContextSizes \cup {16384, 65536}
WideOrigCtxLens == {Some(l) : l \in (1..MaxCtx) \cup {2048, 32768}} \cup OrigCtxLens

Names ==
    { <<"a", ".", "t", "x", "t">>,
      <<"t", "x", "t">>,
      <<"a", ".", "b", ".", "t", "x", "t">>,
      <<"a", ".", "T", "X", "T">>,
      <<"a", ".", "p", "d", "f">>,
      <<"a", "t", "x", "t">>,
      <<"a", ".", "t", "x", "t", ".", "b">>,
      <<"d", ".", "d", "/", "t", "x", "t">> }

Uploads == {NoText} \cup Names
Questions == { <<"q", "?">> }
FileContents == { <<>>, <<"d", "o", "c">> }
TokenCounts == {1, 32767, 32768, 32769, 100001}

\* what the model may write after the prompt
Continuations(prompt) ==
    { <<>>,
      <<" ", "a", "n", "s", "\n">>,
      <<" ", "x">> \o prompt \o <<"y">>,
      prompt \o <<"y">> }

\* tokenizer.decode(output[0], skip_special_tokens=True): the prompt and the
\* continuation, or, when decoding the encoded prompt does not give the
\* prompt back, another text and the continuation
DecodedOutputs(prompt) ==
    {prompt \o c : c \in Continuations(prompt)}
        \cup { (<<"?">> \o Tail(prompt)) \o <<" ", "a", "n", "s">> }

(***************************************************************************)
(* State                                                                   *)
(***************************************************************************)
IdleCall ==
    [pc |-> "idle", material |-> NoText, question |-> <<>>, content |-> NoText,
     prompt |-> NoText, n |-> None, decoded |-> NoText, result |-> NoText,
     calls |-> <<>>]

Returned == {"reject_txt", "reject_len", "answered"}
Finished == Returned \cup {"raised"}

Summary(c) == [material |-> c.material, n |-> c.n, pc |-> c.pc, result |-> c.result]

ParseConfig(cs) ==
    [context_size |-> cs, temperature |-> DefaultTemperature,
     top_p |-> DefaultTopP, max_gen_len |-> DefaultMaxGenLen]

InitWith(css, lens) ==
    /\ \E cs \in css : args = ParseConfig(cs)
    /\ orig_ctx_len \in lens
    /\ rope_scaling = AsLoaded
    /\ model_max_length = None
    /\ prompt_dict = PromptNoInput
    /\ captured = Absent
    /\ pc = "main"
    /\ call = IdleCall
    /\ prev = Absent

Init == InitWith(ContextSizes, OrigCtxLens)

InitMain == InitWith(WideContextSizes, WideOrigCtxLens)

(***************************************************************************)
(* main()                                                                  *)
(***************************************************************************)
Main ==
    /\ pc = "main"
    /\ rope_scaling' = RopeScaling(args.context_size, orig_ctx_len, rope_scaling)
    /\ \E loaded \in BOOLEAN :
          IF loaded /\ orig_ctx_len # None
          THEN /\ model_max_length' = ModelMaxLength(args.context_size, orig_ctx_len)
               /\ captured' = BuildGenerator(args)
               /\ pc' = "serving"
          ELSE \* from_pretrained raises, or `context_size > None` does
               /\ pc' = "crashed"
               /\ UNCHANGED <<model_max_length, captured>>
    /\ UNCHANGED <<args, orig_ctx_len, prompt_dict, call, prev>>

(***************************************************************************)
(* response(material, question)                                            *)
(***************************************************************************)
frame == <<args, orig_ctx_len, rope_scaling, model_max_length, prompt_dict, captured, pc>>

Respond ==
    /\ pc = "serving"
    /\ call.pc \in Finished \cup {"idle"}
    /\ \E material \in Uploads, question \in Questions :
          call' = [IdleCall EXCEPT !.pc = "called", !.material = material,
                                   !.question = question]
    /\ prev' \in IF call.pc = "idle" THEN {prev} ELSE {prev, Summary(call)}
    /\ UNCHANGED frame

CheckFileSkipped ==
    /\ call.pc = "called"
    /\ call' = [call EXCEPT !.pc = "checked", !.calls = @ \o <<"file_present", "extension">>]
    /\ UNCHANGED <<frame, prev>>

CheckFileRemembered ==
    /\ call.pc = "called"
    /\ IF call.material = NoText
       THEN call' = [call EXCEPT !.pc = "reject_txt", !.result = OnlyTxtMessage,
                                 !.calls = @ \o <<"file_present">>]
       ELSE IF ~IsTxtName(call.material) \/ (prev # Absent /\ prev.pc = "answered")
       THEN call' = [call EXCEPT !.pc = "reject_txt", !.result = OnlyTxtMessage,
                                 !.calls = @ \o <<"file_present", "extension">>]
       ELSE call' = [call EXCEPT !.pc = "checked",
                                 !.calls = @ \o <<"file_present", "extension">>]
    /\ UNCHANGED <<frame, prev>>

CheckFile ==
    /\ call.pc = "called"
    /\ IF call.material = NoText
       THEN call' = [call EXCEPT !.pc = "reject_txt", !.result = OnlyTxtMessage,
                                 !.calls = @ \o <<"file_present">>]
       ELSE IF ~IsTxtName(call.material)
       THEN call' = [call EXCEPT !.pc = "reject_txt", !.result = OnlyTxtMessage,
                                 !.calls = @ \o <<"file_present", "extension">>]
       ELSE call' = [call EXCEPT !.pc = "checked",
                                 !.calls = @ \o <<"file_present", "extension">>]
    /\ UNCHANGED <<frame, prev>>

ReadTxtFile ==
    /\ call.pc = "checked"
    /\ \/ \E content \in FileContents :
             call' = [call EXCEPT !.pc = "read", !.content = content,
                                  !.calls = @ \o <<"open">>]
       \/ call' = [call EXCEPT !.pc = "raised", !.result = <<"OSError">>,
                               !.calls = @ \o <<"open">>]
    /\ UNCHANGED <<frame, prev>>

Tokenize ==
    /\ call.pc = "read"
    /\ \E n \in TokenCounts :
          call' = [call EXCEPT !.pc = "tokenized", !.n = Some(n),
                               !.prompt = FormatPrompt(prompt_dict, call.content, call.question),
                               !.calls = @ \o <<"tokenizer">>]
    /\ UNCHANGED <<frame, prev>>

CheckLength ==
    /\ call.pc = "tokenized"
    /\ IF ExceedsLimit(Val(call.n))
       THEN call' = [call EXCEPT !.pc = "reject_len", !.result = LimitMessage(Val(call.n)),
                                 !.calls = @ \o <<"length">>]
       ELSE call' = [call EXCEPT !.pc = "ready", !.calls = @ \o <<"length">>]
    /\ UNCHANGED <<frame, prev>>

Generate ==
    /\ call.pc = "ready"
    /\ \/ call' = [call EXCEPT !.pc = "generated", !.calls = @ \o <<"generate">>]
       \/ call' = [call EXCEPT !.pc = "raised", !.result = <<"RuntimeError">>,
                               !.calls = @ \o <<"generate">>]
    /\ UNCHANGED <<frame, prev>>

\* out = tokenizer.decode(...); out = out.split(prompt)[1].strip(); return out
Decode ==
    /\ call.pc = "generated"
    /\ \E out \in DecodedOutputs(call.prompt) :
          LET parts == Split(out, call.prompt)
          IN  IF Len(parts) >= 2
              THEN call' = [call EXCEPT !.pc = "answered", !.decoded = out,
                                        !.result = Strip(parts[2]),
                                        !.calls = @ \o <<"decode">>]
              ELSE call' = [call EXCEPT !.pc = "raised", !.decoded = out,
                                        !.result = <<"IndexError">>,
                                        !.calls = @ \o <<"decode">>]
    /\ UNCHANGED <<frame, prev>>

Next ==
    \/ Main
    \/ Respond
    \/ CheckFile
    \/ ReadTxtFile
    \/ Tokenize
    \/ CheckLength
    \/ Generate
    \/ Decode

Spec == Init /\ [][Next]_vars

SpecMain == InitMain /\ [][Main]_vars

(***************************************************************************)
(* Properties                                                              *)
(***************************************************************************)
Range(s) == {s[i] : i \in 1..Len(s)}

IsPrefix(p, s) == Len(p) <= Len(s) /\ SubSeq(s, 1, Len(p)) = p

EndsWith(s, suffix) ==
    Len(suffix) <= Len(s) /\ SubSeq(s, Len(s) - Len(suffix) + 1, Len(s)) = suffix

DotTxt == <<".", "t", "x", "t">>

IsDigit(c) == c \in Range(Digit)

DigitValue(c) == CHOOSE d \in 0..9 : Digit[d + 1] = c

RECURSIVE DecimalValue(_)
DecimalValue(s) ==
    IF s = <<>> THEN 0
    ELSE 10 * DecimalValue(SubSeq(s, 1, Len(s) - 1)) + DigitValue(s[Len(s)])

\* text holds the number k written in decimal, not as part of a longer number
HasNumber(text, k) ==
    \E i \in 1..Len(text) : \E j \in i..Len(text) :
        /\ \A m \in i..j : IsDigit(text[m])
        /\ i = 1 \/ ~IsDigit(text[i - 1])
        /\ j = Len(text) \/ ~IsDigit(text[j + 1])
        /\ DecimalValue(SubSeq(text, i, j)) = k

Called(what) == what \in Range(call.calls)

Tokens == Val(call.n)

CallOrder ==
    <<"file_present", "extension", "open", "tokenizer", "length", "generate", "decode">>

\* C1: a call with an uploaded file whose name does not end in ".txt"
\* returns exactly "Only support txt file."
C1_NonTxtNameIsRejected ==
    (call.pc \in Finished /\ call.material # NoText /\ ~EndsWith(call.material, DotTxt))
        => (call.pc = "reject_txt" /\ call.result = OnlyTxtMessage)

\* C2: a call whose prompt has more than 32768 tokens goes no further than
\* the length check and returns the limit message, which holds the number
\* 32768 and the number of tokens of this call's prompt
C2_LimitMessageStatesBoth ==
    (call.n # None /\ Tokens > TokenLimit)
        => /\ call.pc \in {"tokenized", "reject_len"}
           /\ call.pc = "reject_len"
                 => HasNumber(call.result, TokenLimit) /\ HasNumber(call.result, Tokens)

C2_Witness == call.pc = "reject_len" /\ Tokens = 100001

\* C3: when the decoded output is the prompt followed by a continuation, the
\* call returns the continuation stripped of surrounding whitespace
C3_ReturnsStrippedContinuation ==
    (call.pc \in Finished /\ call.decoded # NoText /\ IsPrefix(call.prompt, call.decoded))
        => /\ call.pc = "answered"
           /\ call.result = Strip(Drop(call.decoded, Len(call.prompt)))

\* C4: a finished call returned a failure message exactly when its upload is
\* not a .txt file or its prompt has more than 32768 tokens; every other
\* finished call answered or raised
C4_MessageExactlyInTwoSituations ==
    call.pc \in Finished
        => LET notTxt == call.material = NoText \/ ~EndsWith(call.material, DotTxt)
               tooLong == call.n # None /\ Tokens > TokenLimit
           IN  /\ call.pc = "reject_txt" <=> notTxt
               /\ call.pc = "reject_len" <=> (~notTxt /\ tooLong)
               /\ (~notTxt /\ ~tooLong) => call.pc \in {"answered", "raised"}

\* the same with the handler's own test of the name: what is left of C4 once
\* the name test is taken as the code makes it
C4_WithTheHandlersNameTest ==
    call.pc \in Finished
        => LET notTxt == call.material = NoText \/ ~IsTxtName(call.material)
               tooLong == call.n # None /\ Tokens > TokenLimit
           IN  /\ call.pc = "reject_txt" <=> notTxt
               /\ call.pc = "reject_len" <=> (~notTxt /\ tooLong)
               /\ (~notTxt /\ ~tooLong) => call.pc \in {"answered", "raised"}

\* C6: the steps of a call happen in the order file-present, extension,
\* open, tokenizer, length, generate; generate is called only for a name that
\* passed the txt test and a prompt of at most 32768 tokens; a call rejected
\* for its name opened no file and called neither tokenizer nor model
C6_GenerateOnlyAfterBothChecks ==
    /\ IsPrefix(call.calls, CallOrder)
    /\ Called("generate")
          => /\ call.material # NoText /\ IsTxtName(call.material)
             /\ call.n # None /\ Tokens <= TokenLimit
    /\ call.pc = "reject_txt"
          => ~Called("open") /\ ~Called("tokenizer") /\ ~Called("generate")

C6_Witness == Called("generate") /\ Tokens = 32767 /\ call.pc = "answered"

\* C7: a prompt of exactly 32768 tokens is rejected with the limit message
\* and never passed to model.generate
C7_ExactLimitIsRejected ==
    (call.n # None /\ Tokens = TokenLimit /\ Called("length"))
        => call.pc = "reject_len" /\ ~Called("generate")

\* C8: once main has passed the RoPE step, rope_scaling is linear with an
\* integer factor f >= 2, f * L >= context_size and (f - 1) * L < context_size
\* when L is present and context_size > L, and is as loaded otherwise
C8_RopeFactorIsCeiling ==
    pc # "main"
        => IF orig_ctx_len # None /\ args.context_size > Val(orig_ctx_len)
           THEN /\ rope_scaling # AsLoaded
                /\ rope_scaling.type = "linear"
                /\ rope_scaling.factor \in Int
                /\ rope_scaling.factor >= 2
                /\ rope_scaling.factor * Val(orig_ctx_len) >= args.context_size
                /\ (rope_scaling.factor - 1) * Val(orig_ctx_len) < args.context_size
           ELSE rope_scaling = AsLoaded

C8_Witness ==
    /\ pc = "serving"
    /\ args.context_size = 5
    /\ orig_ctx_len = Some(2)
    /\ rope_scaling = [type |-> "linear", factor |-> 3]

\* the positional range main configured: max(L, factor * L), the factor that
\* of the RoPE step
PositionalRange ==
    IF rope_scaling = AsLoaded \/ rope_scaling.factor * Val(orig_ctx_len) < Val(orig_ctx_len)
    THEN Val(orig_ctx_len)
    ELSE rope_scaling.factor * Val(orig_ctx_len)

\* C9: a prompt passed to model.generate is no longer than the positional
\* range main configured nor than the tokenizer's model_max_length
C9_PromptWithinConfiguredRange ==
    Called("generate") => Tokens <= PositionalRange /\ Tokens <= Val(model_max_length)

\* C9 as amended: a prompt passed to model.generate has at most 32768 tokens
\* whatever context_size and L are, and is within the positional range and
\* model_max_length when context_size >= 32768 or L >= 32768
C9_PromptWithinFixedLimit ==
    Called("generate")
        => /\ Tokens <= TokenLimit
           /\ (args.context_size >= TokenLimit \/ Val(orig_ctx_len) >= TokenLimit)
                 => Tokens <= PositionalRange /\ Tokens <= Val(model_max_length)

C9_Witness ==
    /\ Called("generate")
    /\ Tokens = TokenLimit
    /\ args.context_size = TokenLimit
    /\ orig_ctx_len = Some(4096)

Verdict(r) ==
    IF r.pc \in {"reject_txt", "reject_len"} THEN <<r.pc, r.result>> ELSE <<"accepted", NoText>>

SameVerdictAsEarlier ==
    (prev # Absent /\ call.pc \in Finished)
        => /\ prev.material = call.material
                 => (prev.pc = "reject_txt" <=> call.pc = "reject_txt")
           /\ (prev.material = call.material /\ prev.n = call.n)
                 => Verdict(prev) = Verdict(call)

\* C10: while the form is served no step of any call changes what the closure
\* captured (model and tokenizer configuration, temperature, top_p,
\* max_gen_len) or the prompt template, and two calls with the same file name
\* and the same token count are rejected alike, with the same message,
\* whatever was called between them
C10_HandlerIsStateless ==
    /\ []SameVerdictAsEarlier
    /\ [][pc = "serving"
            => UNCHANGED <<captured, rope_scaling, model_max_length, prompt_dict, args>>]_vars

C10_Witness ==
    /\ prev # Absent
    /\ prev.pc = "answered"
    /\ call.pc = "reject_len"
    /\ prev.material = call.material

====
